---- MODULE Spec2Model ----
(***************************************************************************)
(* CondenseQuestionChatEngine (llama_index/chat_engine/condense_question.py) *)
(* as a state machine: the engine's memory store, the coroutines of the     *)
(* async operations suspended at their two awaits, and the wrapped chunk    *)
(* generators returned by the streaming operations.                         *)
(*                                                                          *)
(* Text is a sequence of tokens, so that concatenation is \o.  A Python     *)
(* Optional is a set with at most one element: None is {} and a value x is  *)
(* {x}.                                                                     *)
(***************************************************************************)
EXTENDS Naturals, Sequences, FiniteSets, TLC

VARIABLES engine, memory, turn, coros, streams, last

vars == <<engine, memory, turn, coros, streams, last>>

---------------------------------------------------------------------------
(* Bounds and input sets *)

MaxTurns == 2

TurnIds == 1..MaxTurns

None == {}

Some(x) == {x}

Val(o) == CHOOSE x \in o : TRUE

USER == "user"

ASSISTANT == "assistant"

ChatMessage(role, content) == [role |-> role, content |-> content]

(* the message of the k-th call: distinct calls carry distinct messages *)
MessageTokens == <<"m1", "m2", "m3", "m4">>

MessageOf(k) == <<MessageTokens[k]>>

Messages(k) == {MessageOf(k)}

SeedHistory == <<ChatMessage(USER, <<"s">>), ChatMessage(ASSISTANT, <<"t">>)>>

ArgHistory == <<ChatMessage(USER, <<"h">>)>>

HistoryArgs == {None, Some(<<>>), Some(ArgHistory)}

SeedArgs == {None, Some(<<>>), Some(SeedHistory)}

PromptArgs == {None}

SystemPromptArgs == {None, Some(<<"sys">>)}

PrefixMessagesArgs == {None, Some(<<>>)}

DEFAULT_PROMPT == "DEFAULT_PROMPT"

(* what a call of a collaborator can do: raise, or return a value *)
NoError == "none"

Raises(e) == [raises |-> TRUE, error |-> e, value |-> <<>>]

Returns(v) == [raises |-> FALSE, error |-> NoError, value |-> v]

PredictorOutcomes == {Raises("PredictorError"), Returns(<<"q">>)}

Response(text) == [type |-> "Response", response |-> text, response_gen |-> None]

StreamingResponse(gen) ==
    [type |-> "StreamingResponse", response |-> None, response_gen |-> gen]

(* what the query engine returns to chat and achat, which only stringify *)
(* it: an empty answer, an answer, a streaming response                    *)
Responses ==
    { Response(Some(<<>>)), Response(Some(<<"a">>)),
      StreamingResponse(Some(<< <<"a">>, <<"b">> >>)) }

(* ... and to stream_chat and astream_chat, which test it: not a          *)
(* StreamingResponse, no chunk sequence, no chunk, two chunks              *)
StreamResponses ==
    { Response(Some(<<"a">>)),
      StreamingResponse(None), StreamingResponse(Some(<<>>)),
      StreamingResponse(Some(<< <<"a">>, <<"b">> >>)) }

QueryOutcomes == {Raises("QueryError")} \cup {Returns(r) : r \in Responses}

StreamQueryOutcomes ==
    {Raises("QueryError")} \cup {Returns(r) : r \in StreamResponses}

(* the query engine is not called when the predictor raised *)
QueryOutcomesAfter(p) == IF p.raises THEN {Raises("QueryError")} ELSE QueryOutcomes

StreamQueryOutcomesAfter(p) ==
    IF p.raises THEN {Raises("QueryError")} ELSE StreamQueryOutcomes

---------------------------------------------------------------------------
(* Collaborators *)

(* str(response): the response text, "None" when it is absent or empty *)
Str(r) ==
    IF r.response = None \/ Val(r.response) = <<>>
    THEN <<"None">> ELSE Val(r.response)

(* messages_to_history_str: one role-prefixed line per message *)
RECURSIVE messages_to_history_str(_)
messages_to_history_str(h) ==
    IF h = <<>> THEN <<>>
    ELSE LET line == <<Head(h).role, ":">> \o Head(h).content
         IN IF Len(h) = 1 THEN line
            ELSE line \o <<"\n">> \o messages_to_history_str(Tail(h))

(* the memory store: get_all is the full history, get the working view,  *)
(* the most recent MemoryWindow messages                                   *)
MemoryWindow == 2

get_all(mem) == mem

get(mem) ==
    IF Len(mem) <= MemoryWindow THEN mem
    ELSE SubSeq(mem, Len(mem) - MemoryWindow + 1, Len(mem))

put(mem, m) == Append(mem, m)

memory_reset(mem) == <<>>

(* Python's `x or y` on an optional list: None and [] are both falsy *)
Truthy(o) == o # None /\ Val(o) # <<>>

---------------------------------------------------------------------------
(* The record of the operation that returned (or raised) last: what the  *)
(* caller passed and got back, what the collaborators were handed and     *)
(* what they answered, memory when the operation was called (atcall) and  *)
(* just before its last step (before).  For a read of a stream,           *)
(* since_reset tells that the last operation to return before the reads   *)
(* of this stream was reset.                                               *)

NoLast ==
    [op |-> "none", id |-> 0, message |-> <<>>, arg |-> None,
     config |-> <<None, None>>, atcall |-> <<>>, before |-> <<>>,
     error |-> NoError, response |-> None, sources |-> <<>>,
     predicts |-> <<>>, predicted |-> None, queries |-> <<>>,
     returned |-> None, trace |-> <<>>, history |-> <<>>,
     chunk |-> None, yielded |-> <<>>, since_reset |-> FALSE]

NoEngine == None

Idle == [pc |-> "idle"]

NoStream == [state |-> "none"]

Exhausted == [state |-> "exhausted"]

Init ==
    /\ engine = NoEngine
    /\ memory = <<>>
    /\ turn = 0
    /\ coros = [i \in TurnIds |-> Idle]
    /\ streams = [i \in TurnIds |-> NoStream]
    /\ last = NoLast

---------------------------------------------------------------------------
(* Construction *)

(* faulty variant: the options are tested for truth, so an empty prefix_messages *)
(* list passes                                                            *)
Unsupported_truthy(system_prompt, prefix_messages) ==
    IF Truthy(system_prompt) THEN "NotImplementedError"
    ELSE IF Truthy(prefix_messages) THEN "NotImplementedError"
    ELSE NoError

(* the two `is not None` checks of from_defaults *)
Unsupported(system_prompt, prefix_messages) ==
    IF system_prompt # None THEN "NotImplementedError"
    ELSE IF prefix_messages # None THEN "NotImplementedError"
    ELSE NoError

from_defaults(condense_question_prompt, chat_history, system_prompt, prefix_messages) ==
    /\ engine = NoEngine
    /\ LET prompt == IF condense_question_prompt # None
                     THEN Val(condense_question_prompt) ELSE DEFAULT_PROMPT
           seed == IF Truthy(chat_history) THEN Val(chat_history) ELSE <<>>
           err == Unsupported(system_prompt, prefix_messages)
       IN /\ last' = [NoLast EXCEPT !.op = "from_defaults", !.error = err,
                         !.config = <<system_prompt, prefix_messages>>]
          /\ IF err # NoError
             THEN UNCHANGED <<engine, memory>>
             ELSE /\ engine' = Some([query_engine |-> "query_engine",
                                     condense_question_prompt |-> prompt])
                  /\ memory' = seed
    /\ UNCHANGED <<turn, coros, streams>>

---------------------------------------------------------------------------
(* Helpers of the engine *)

(* _condense_question / _acondense_question: the slots handed to the     *)
(* predictor; its answer is the outcome drawn by the calling action       *)
_condense_question(chat_history, last_message) ==
    [prompt |-> Val(engine).condense_question_prompt,
     question |-> last_message,
     chat_history |-> messages_to_history_str(chat_history)]

(* faulty variant: the stringified response is stored as raw_output *)
_get_tool_output_stringified(query, response) ==
    [content |-> Str(response),
     tool_name |-> "query_engine",
     raw_input |-> [query |-> query],
     raw_output |-> Str(response)]

_get_tool_output_from_response(query, response) ==
    [content |-> Str(response),
     tool_name |-> "query_engine",
     raw_input |-> [query |-> query],
     raw_output |-> response]

(* faulty variant: without an argument the full history is read, not the   *)
(* working view                                                            *)
HistoryOf_full(mem, chat_history) ==
    IF Truthy(chat_history) THEN Val(chat_history) ELSE get_all(mem)

(* faulty variant: without an argument the history is empty, memory is not read *)
HistoryOf_unread(mem, chat_history) ==
    IF Truthy(chat_history) THEN Val(chat_history) ELSE <<>>

(* `chat_history or self._memory.get()`, and whether memory was read *)
HistoryOf(mem, chat_history) ==
    IF Truthy(chat_history) THEN Val(chat_history) ELSE get(mem)

ReadOf(chat_history) ==
    IF Truthy(chat_history) THEN <<>> ELSE <<"get">>

(* what the operation has to report once the predictor has been called *)
Called(op, mem, message, chat_history, p) ==
    [NoLast EXCEPT
        !.op = op, !.message = message, !.arg = chat_history,
        !.atcall = mem, !.before = mem,
        !.predicts = <<_condense_question(HistoryOf(mem, chat_history), message)>>,
        !.predicted = IF p.raises THEN None ELSE Some(p.value),
        !.error = p.error,
        !.trace = ReadOf(chat_history) \o <<"predict">>]

(* faulty variant: the query engine is handed the original message *)
Queried_raw(r, condensed_question, q) ==
    [r EXCEPT
        !.queries = <<r.message>>,
        !.returned = IF q.raises THEN None ELSE Some(q.value),
        !.error = q.error,
        !.trace = r.trace \o <<"query">>]

(* ... and once the query engine has been called with the question *)
Queried(r, condensed_question, q) ==
    [r EXCEPT
        !.queries = <<condensed_question>>,
        !.returned = IF q.raises THEN None ELSE Some(q.value),
        !.error = q.error,
        !.trace = r.trace \o <<"query">>]

---------------------------------------------------------------------------
(* chat *)

(* faulty variant: the assistant message is put before the user message *)
chat_record_swapped(mem, message, query_response) ==
    put(put(mem, ChatMessage(ASSISTANT, Str(query_response))),
        ChatMessage(USER, message))

(* the two puts of chat *)
chat_record(mem, message, query_response) ==
    put(put(mem, ChatMessage(USER, message)),
        ChatMessage(ASSISTANT, Str(query_response)))

(* the body of chat run on memory mem: memory afterwards and the report *)
chat_body(mem, message, chat_history, p, q) ==
    LET called == Called("chat", mem, message, chat_history, p)
        condensed_question == p.value
        queried == Queried(called, condensed_question, q)
        query_response == q.value
        tool_output ==
            _get_tool_output_from_response(condensed_question, query_response)
    IN IF p.raises THEN [memory |-> mem, last |-> called]
       ELSE IF q.raises THEN [memory |-> mem, last |-> queried]
       ELSE [memory |-> chat_record(mem, message, query_response),
             last |-> [queried EXCEPT
                          !.response = Some(Str(query_response)),
                          !.sources = <<tool_output>>,
                          !.trace = queried.trace \o <<"put", "put">>]]

(* faulty variant: the user message is put before the query engine is called *)
chat_early_put(message, chat_history, p, q) ==
    /\ engine # NoEngine
    /\ turn < MaxTurns
    /\ turn' = turn + 1
    /\ LET r == chat_body(memory, message, chat_history, p, q)
       IN /\ memory' = IF ~ p.raises /\ q.raises
                       THEN put(memory, ChatMessage(USER, message))
                       ELSE r.memory
          /\ last' = [r.last EXCEPT !.id = turn + 1]
    /\ UNCHANGED <<engine, coros, streams>>

chat(message, chat_history, p, q) ==
    /\ engine # NoEngine
    /\ turn < MaxTurns
    /\ turn' = turn + 1
    /\ LET r == chat_body(memory, message, chat_history, p, q)
       IN /\ memory' = r.memory
          /\ last' = [r.last EXCEPT !.id = turn + 1]
    /\ UNCHANGED <<engine, coros, streams>>

---------------------------------------------------------------------------
(* stream_chat and the generator it returns *)

(* response_gen_with_chat_history(message, memory, response_gen): a       *)
(* generator that has not run yet                                          *)
response_gen_with_chat_history(message, response_gen) ==
    [state |-> "open", message |-> message, gen |-> response_gen,
     response_str |-> <<>>, yielded |-> <<>>]

(* faulty variant: no check, a missing chunk sequence is taken as an empty one *)
stream_chat_response_unchecked(message, query_response) ==
    [error |-> NoError,
     chat_stream |-> response_gen_with_chat_history(
                         message,
                         IF query_response.response_gen = None THEN <<>>
                         ELSE Val(query_response.response_gen))]

(* the isinstance / response_gen check of stream_chat *)
stream_chat_response(message, query_response) ==
    IF /\ query_response.type = "StreamingResponse"
       /\ query_response.response_gen # None
    THEN [error |-> NoError,
          chat_stream |-> response_gen_with_chat_history(
                              message, Val(query_response.response_gen))]
    ELSE [error |-> "ValueError", chat_stream |-> NoStream]

(* the body of stream_chat: the generator it returns and the report *)
stream_chat_body(mem, message, chat_history, p, q) ==
    LET called == Called("stream_chat", mem, message, chat_history, p)
        condensed_question == p.value
        queried == Queried(called, condensed_question, q)
        query_response == q.value
        tool_output ==
            _get_tool_output_from_response(condensed_question, query_response)
        response == stream_chat_response(message, query_response)
    IN IF p.raises
       THEN [memory |-> mem, chat_stream |-> NoStream, last |-> called]
       ELSE IF q.raises
       THEN [memory |-> mem, chat_stream |-> NoStream, last |-> queried]
       ELSE IF response.error # NoError
       THEN [memory |-> mem, chat_stream |-> NoStream,
             last |-> [queried EXCEPT !.error = response.error]]
       ELSE [memory |-> mem, chat_stream |-> response.chat_stream,
             last |-> [queried EXCEPT !.sources = <<tool_output>>]]

(* faulty variant: the turn is recorded when stream_chat returns *)
stream_chat_eager(message, chat_history, p, q) ==
    /\ engine # NoEngine
    /\ turn < MaxTurns
    /\ turn' = turn + 1
    /\ LET r == stream_chat_body(memory, message, chat_history, p, q)
       IN /\ memory' = IF r.last.error = NoError
                       THEN chat_record(memory, message, q.value)
                       ELSE r.memory
          /\ streams' = [streams EXCEPT ![turn + 1] = r.chat_stream]
          /\ last' = [r.last EXCEPT !.id = turn + 1]
    /\ UNCHANGED <<engine, coros>>

stream_chat(message, chat_history, p, q) ==
    /\ engine # NoEngine
    /\ turn < MaxTurns
    /\ turn' = turn + 1
    /\ LET r == stream_chat_body(memory, message, chat_history, p, q)
       IN /\ memory' = r.memory
          /\ streams' = [streams EXCEPT ![turn + 1] = r.chat_stream]
          /\ last' = [r.last EXCEPT !.id = turn + 1]
    /\ UNCHANGED <<engine, coros>>

(* one next() on the generator of stream i: the next chunk, or the two    *)
(* puts and StopIteration once the wrapped sequence is exhausted           *)
next(i) ==
    /\ streams[i].state = "open"
    /\ LET g == streams[i]
           base == [NoLast EXCEPT !.op = "next", !.id = i,
                                  !.message = g.message, !.before = memory,
                                  !.since_reset =
                                      \/ last.op = "reset"
                                      \/ /\ last.op = "next"
                                         /\ last.id = i
                                         /\ last.since_reset]
       IN IF g.gen # <<>>
          THEN LET token == Head(g.gen)
               IN /\ streams' = [streams EXCEPT ![i] =
                        [g EXCEPT !.gen = Tail(g.gen),
                                  !.response_str = g.response_str \o token,
                                  !.yielded = Append(g.yielded, token)]]
                  /\ last' = [base EXCEPT !.chunk = Some(token),
                                          !.yielded = Append(g.yielded, token)]
                  /\ UNCHANGED memory
          ELSE /\ memory' = put(put(memory, ChatMessage(USER, g.message)),
                                ChatMessage(ASSISTANT, g.response_str))
               /\ streams' = [streams EXCEPT ![i] = Exhausted]
               /\ last' = [base EXCEPT !.error = "StopIteration",
                                       !.response = Some(g.response_str),
                                       !.yielded = g.yielded,
                                       !.trace = <<"put", "put">>]
    /\ UNCHANGED <<engine, turn, coros>>

(* faulty variant: a finished generator records the turn again *)
next_exhausted_again(i) ==
    /\ streams[i].state = "exhausted"
    /\ memory' = put(put(memory, ChatMessage(USER, MessageOf(i))),
                     ChatMessage(ASSISTANT, <<>>))
    /\ last' = [NoLast EXCEPT !.op = "next", !.id = i,
                              !.error = "StopIteration"]
    /\ UNCHANGED <<engine, turn, coros, streams>>

(* next() on a generator that already finished *)
next_exhausted(i) ==
    /\ streams[i].state = "exhausted"
    /\ last' = [NoLast EXCEPT !.op = "next", !.id = i,
                              !.error = "StopIteration"]
    /\ UNCHANGED <<engine, memory, turn, coros, streams>>

---------------------------------------------------------------------------
(* achat: a coroutine that suspends at `await _acondense_question` and at *)
(* `await aquery`; each action runs it from one suspension to the next.   *)
(* A suspended coroutine holds its local variables.                        *)

Suspended(op, message, chat_history) ==
    [pc |-> "apredict", op |-> op, message |-> message, arg |-> chat_history,
     chat_history |-> HistoryOf(memory, chat_history),
     condensed_question |-> <<>>, atcall |-> memory]

(* faulty variant: the history is read when the coroutine finishes, not   *)
(* when the operation is called                                            *)
Finishing_late(c, i) ==
    [NoLast EXCEPT
        !.op = c.op, !.id = i, !.message = c.message, !.arg = c.arg,
        !.atcall = c.atcall, !.before = memory,
        !.predicts = <<_condense_question(HistoryOf(memory, c.arg), c.message)>>,
        !.trace = ReadOf(c.arg) \o <<"predict">>]

(* the report of a coroutine that is about to finish *)
Finishing(c, i) ==
    [NoLast EXCEPT
        !.op = c.op, !.id = i, !.message = c.message, !.arg = c.arg,
        !.atcall = c.atcall, !.before = memory,
        !.predicts = <<_condense_question(c.chat_history, c.message)>>,
        !.trace = ReadOf(c.arg) \o <<"predict">>]

(* faulty variant: achat puts the user message before it awaits the predictor *)
achat_call_put_first(message, chat_history) ==
    /\ engine # NoEngine
    /\ turn < MaxTurns
    /\ turn' = turn + 1
    /\ coros' = [coros EXCEPT ![turn + 1] =
                    Suspended("achat", message, chat_history)]
    /\ memory' = put(memory, ChatMessage(USER, message))
    /\ UNCHANGED <<engine, streams, last>>

achat_call(message, chat_history) ==
    /\ engine # NoEngine
    /\ turn < MaxTurns
    /\ turn' = turn + 1
    /\ coros' = [coros EXCEPT ![turn + 1] =
                    Suspended("achat", message, chat_history)]
    /\ UNCHANGED <<engine, memory, streams, last>>

achat_predicted(i, p) ==
    /\ coros[i].pc = "apredict"
    /\ coros[i].op = "achat"
    /\ IF p.raises
       THEN /\ coros' = [coros EXCEPT ![i] = Idle]
            /\ last' = [Finishing(coros[i], i) EXCEPT !.error = p.error]
       ELSE /\ coros' = [coros EXCEPT ![i].pc = "aquery",
                                      ![i].condensed_question = p.value]
            /\ UNCHANGED last
    /\ UNCHANGED <<engine, memory, turn, streams>>

(* faulty variant: achat records the answer only *)
achat_record_answer_only(mem, message, query_response) ==
    put(mem, ChatMessage(ASSISTANT, Str(query_response)))

(* the two puts of achat *)
achat_record(mem, message, query_response) ==
    put(put(mem, ChatMessage(USER, message)),
        ChatMessage(ASSISTANT, Str(query_response)))

achat_queried(i, q) ==
    /\ coros[i].pc = "aquery"
    /\ coros[i].op = "achat"
    /\ LET c == coros[i]
           query_response == q.value
           tool_output == _get_tool_output_from_response(
                              c.condensed_question, query_response)
           base == [Finishing(c, i) EXCEPT
                       !.predicted = Some(c.condensed_question),
                       !.queries = <<c.condensed_question>>,
                       !.trace = ReadOf(c.arg) \o <<"predict", "query">>]
       IN /\ coros' = [coros EXCEPT ![i] = Idle]
          /\ IF q.raises
             THEN /\ last' = [base EXCEPT !.error = q.error]
                  /\ UNCHANGED memory
             ELSE /\ memory' = achat_record(memory, c.message, query_response)
                  /\ last' = [base EXCEPT
                                 !.returned = Some(query_response),
                                 !.response = Some(Str(query_response)),
                                 !.sources = <<tool_output>>,
                                 !.trace = base.trace \o <<"put", "put">>]
    /\ UNCHANGED <<engine, turn, streams>>

---------------------------------------------------------------------------
(* astream_chat *)

astream_chat_call(message, chat_history) ==
    /\ engine # NoEngine
    /\ turn < MaxTurns
    /\ turn' = turn + 1
    /\ coros' = [coros EXCEPT ![turn + 1] =
                    Suspended("astream_chat", message, chat_history)]
    /\ UNCHANGED <<engine, memory, streams, last>>

astream_chat_predicted(i, p) ==
    /\ coros[i].pc = "apredict"
    /\ coros[i].op = "astream_chat"
    /\ IF p.raises
       THEN /\ coros' = [coros EXCEPT ![i] = Idle]
            /\ last' = [Finishing(coros[i], i) EXCEPT !.error = p.error]
       ELSE /\ coros' = [coros EXCEPT ![i].pc = "aquery",
                                      ![i].condensed_question = p.value]
            /\ UNCHANGED last
    /\ UNCHANGED <<engine, memory, turn, streams>>

(* the isinstance / response_gen check of astream_chat *)
astream_chat_response(message, query_response) ==
    IF /\ query_response.type = "StreamingResponse"
       /\ query_response.response_gen # None
    THEN [error |-> NoError,
          chat_stream |-> response_gen_with_chat_history(
                              message, Val(query_response.response_gen))]
    ELSE [error |-> "ValueError", chat_stream |-> NoStream]

astream_chat_queried(i, q) ==
    /\ coros[i].pc = "aquery"
    /\ coros[i].op = "astream_chat"
    /\ LET c == coros[i]
           query_response == q.value
           tool_output == _get_tool_output_from_response(
                              c.condensed_question, query_response)
           response == astream_chat_response(c.message, query_response)
           base == [Finishing(c, i) EXCEPT
                       !.predicted = Some(c.condensed_question),
                       !.queries = <<c.condensed_question>>,
                       !.trace = ReadOf(c.arg) \o <<"predict", "query">>]
       IN /\ coros' = [coros EXCEPT ![i] = Idle]
          /\ IF q.raises
             THEN /\ last' = [base EXCEPT !.error = q.error]
                  /\ UNCHANGED streams
             ELSE /\ streams' = [streams EXCEPT ![i] = response.chat_stream]
                  /\ last' = [base EXCEPT
                                 !.returned = Some(query_response),
                                 !.error = response.error,
                                 !.sources = IF response.error = NoError
                                             THEN <<tool_output>> ELSE <<>>]
    /\ UNCHANGED <<engine, memory, turn>>

---------------------------------------------------------------------------
(* reset and the chat_history accessor *)

(* faulty variant: reset drops the query engine and the prompt with the memory *)
reset_all ==
    /\ engine # NoEngine
    /\ memory' = <<>>
    /\ engine' = NoEngine
    /\ last' = [NoLast EXCEPT !.op = "reset"]
    /\ UNCHANGED <<turn, coros, streams>>

(* faulty variant: reset leaves the memory as it is *)
reset_keeps ==
    /\ engine # NoEngine
    /\ memory' = memory
    /\ last' = [NoLast EXCEPT !.op = "reset"]
    /\ UNCHANGED <<engine, turn, coros, streams>>

reset ==
    /\ engine # NoEngine
    /\ memory' = memory_reset(memory)
    /\ last' = [NoLast EXCEPT !.op = "reset"]
    /\ UNCHANGED <<engine, turn, coros, streams>>

chat_history ==
    /\ engine # NoEngine
    /\ last' = [NoLast EXCEPT !.op = "chat_history",
                              !.history = get_all(memory)]
    /\ UNCHANGED <<engine, memory, turn, coros, streams>>

---------------------------------------------------------------------------

Next ==
    \/ \E c \in PromptArgs, h \in SeedArgs, s \in SystemPromptArgs,
          x \in PrefixMessagesArgs : from_defaults(c, h, s, x)
    \/ \E m \in Messages(turn + 1), h \in HistoryArgs, p \in PredictorOutcomes :
          \E q \in QueryOutcomesAfter(p) : chat(m, h, p, q)
    \/ \E m \in Messages(turn + 1), h \in HistoryArgs, p \in PredictorOutcomes :
          \E q \in StreamQueryOutcomesAfter(p) : stream_chat(m, h, p, q)
    \/ \E m \in Messages(turn + 1), h \in HistoryArgs : achat_call(m, h)
    \/ \E i \in TurnIds, p \in PredictorOutcomes : achat_predicted(i, p)
    \/ \E i \in TurnIds, q \in QueryOutcomes : achat_queried(i, q)
    \/ \E m \in Messages(turn + 1), h \in HistoryArgs : astream_chat_call(m, h)
    \/ \E i \in TurnIds, p \in PredictorOutcomes : astream_chat_predicted(i, p)
    \/ \E i \in TurnIds, q \in StreamQueryOutcomes : astream_chat_queried(i, q)
    \/ \E i \in TurnIds : next(i)
    \/ \E i \in TurnIds : next_exhausted(i)
    \/ reset
    \/ chat_history

Spec == Init /\ [][Next]_vars

---------------------------------------------------------------------------
(* Properties *)

TurnOps == {"chat", "stream_chat", "achat", "astream_chat"}

RECURSIVE Concat(_)
Concat(chunks) ==
    IF chunks = <<>> THEN <<>> ELSE Head(chunks) \o Concat(Tail(chunks))

Turn(message, text) ==
    <<ChatMessage(USER, message), ChatMessage(ASSISTANT, text)>>

Holds(mem, m) == \E k \in 1..Len(mem) : mem[k] = m

(* C1: every successful chat call, with or without an explicit history   *)
(* and whatever the query engine returned, leaves memory equal to its     *)
(* contents before the call followed by one user message with the         *)
(* original message and one assistant message with the stringified        *)
(* response: memory grows by exactly 2.                                    *)
C1_ChatAppendsOneTurn ==
    (last.op = "chat" /\ last.error = NoError) =>
        /\ last.returned # None
        /\ last.message = MessageOf(last.id)
        /\ memory = last.before
                      \o Turn(MessageOf(last.id), Str(Val(last.returned)))
        /\ Len(memory) = Len(last.before) + 2

C1_Witness ==
    /\ last.op = "chat"
    /\ last.error = NoError
    /\ last.id = 2
    /\ last.arg = Some(ArgHistory)
    /\ last.returned = Some(Response(Some(<<>>)))
    /\ Len(memory) = 4

(* C2: stream_chat leaves memory as it was when it returns; while the     *)
(* returned chunk sequence is not exhausted memory holds nothing of that  *)
(* turn, and a next() that yields a chunk appends nothing; the next()     *)
(* that exhausts the sequence appends the user message and then an        *)
(* assistant message whose content is the concatenation of the yielded    *)
(* chunks.                                                                 *)
C2_StreamDefersMemory ==
    /\ last.op = "stream_chat" => memory = last.before
    /\ \A i \in TurnIds :
          streams[i].state = "open" =>
              ~ Holds(memory, ChatMessage(USER, MessageOf(i)))
    /\ (last.op = "next" /\ last.chunk # None) => memory = last.before
    /\ (last.op = "next" /\ last.trace # <<>>) =>
          /\ memory = last.before
                        \o Turn(MessageOf(last.id), Concat(last.yielded))
          /\ Len(memory) = Len(last.before) + 2
          /\ streams[last.id].state = "exhausted"

C2_Witness ==
    /\ last.op = "next"
    /\ last.trace # <<>>
    /\ last.yielded = << <<"a">>, <<"b">> >>
    /\ memory = last.before \o Turn(MessageOf(last.id), <<"a", "b">>)

(* C3: whenever the caller supplies a chat_history argument, of any       *)
(* length, the transcript handed to the predictor is built from that list *)
(* and not from memory, and a successful chat or achat still appends the  *)
(* turn to memory.                                                         *)
C3_ExplicitHistoryWins ==
    (last.op \in TurnOps /\ last.arg # None) =>
        /\ last.predicts[1].chat_history
              = messages_to_history_str(Val(last.arg))
        /\ (last.op \in {"chat", "achat"} /\ last.error = NoError) =>
              memory = last.before
                         \o Turn(last.message, Str(Val(last.returned)))

C3_FailingInput ==
    /\ last.op = "chat"
    /\ last.arg = Some(<<>>)
    /\ last.atcall = SeedHistory
    /\ last.predicts[1].chat_history = messages_to_history_str(SeedHistory)

StreamingCapable(r) ==
    r.type = "StreamingResponse" /\ r.response_gen # None

Finished(i) == i <= turn /\ coros[i] = Idle /\ streams[i].state # "open"

(* C4: when the query engine returns a response that is not a             *)
(* StreamingResponse, or one without a chunk sequence, stream_chat and    *)
(* astream_chat fail with ValueError; the failing step appends nothing    *)
(* (for stream_chat memory is what it was at the call), no generator is   *)
(* returned, and no later step appends the message of a finished turn.    *)
C4_NotStreamingFails ==
    /\ [](( /\ last.op \in {"stream_chat", "astream_chat"}
            /\ last.returned # None
            /\ ~ StreamingCapable(Val(last.returned)) ) =>
              /\ last.error = "ValueError"
              /\ memory = last.before
              /\ last.op = "stream_chat" => memory = last.atcall
              /\ last.sources = <<>>
              /\ streams[last.id] = NoStream
              /\ coros[last.id] = Idle
              /\ ~ Holds(memory, ChatMessage(USER, MessageOf(last.id))))
    /\ [][\A i \in TurnIds :
             (Finished(i) /\ Holds(memory', ChatMessage(USER, MessageOf(i))))
                 => Holds(memory, ChatMessage(USER, MessageOf(i)))]_vars

C4_Witness ==
    /\ last.op = "stream_chat"
    /\ last.returned = Some(StreamingResponse(None))
    /\ last.error = "ValueError"
    /\ last.before # <<>>
    /\ memory = last.before

(* C5: if the predictor or the query engine raises during chat, achat,    *)
(* stream_chat or astream_chat, that error is what the caller gets, the   *)
(* failing step appends nothing (for the sync operations memory is what   *)
(* it was at the call), nothing of the turn is in memory and nothing of   *)
(* it is left to run; puts happen only in a turn whose predictor call and *)
(* query call both returned.                                               *)
C5_UpstreamErrorsLeaveMemory ==
    /\ (last.op \in TurnOps /\ last.predicted = None) =>
          /\ last.error = "PredictorError"
          /\ last.queries = <<>>
    /\ (last.op \in TurnOps /\ last.predicted # None /\ last.returned = None) =>
          last.error = "QueryError"
    /\ (last.op \in TurnOps /\ last.error \in {"PredictorError", "QueryError"}) =>
          /\ memory = last.before
          /\ last.op \in {"chat", "stream_chat"} => memory = last.atcall
          /\ ~ Holds(memory, ChatMessage(USER, MessageOf(last.id)))
          /\ last.response = None
          /\ last.sources = <<>>
          /\ streams[last.id] = NoStream
          /\ coros[last.id] = Idle
    /\ (last.op \in TurnOps /\ memory # last.before) =>
          /\ last.predicted # None
          /\ last.returned # None

C5_Witness ==
    /\ last.op = "chat"
    /\ last.error = "QueryError"
    /\ last.predicted = Some(<<"q">>)
    /\ last.before # <<>>
    /\ memory = last.before

(* C6: from_defaults with a non-null system_prompt or a non-null          *)
(* prefix_messages (an empty list included) fails with                    *)
(* NotImplementedError, no engine exists afterwards, and the query engine *)
(* has not been called: no turn has started while there is no engine.     *)
C6_UnsupportedOptionsFail ==
    /\ ( /\ last.op = "from_defaults"
         /\ (last.config[1] # None \/ last.config[2] # None) ) =>
          /\ last.error = "NotImplementedError"
          /\ engine = NoEngine
          /\ last.queries = <<>>
    /\ engine = NoEngine =>
          /\ turn = 0
          /\ memory = <<>>
          /\ \A i \in TurnIds : coros[i] = Idle /\ streams[i] = NoStream

C6_Witness ==
    /\ last.op = "from_defaults"
    /\ last.config = <<None, Some(<<>>)>>
    /\ last.error = "NotImplementedError"
    /\ engine = NoEngine

(* C7: after any sequence of operations reset() empties memory and a      *)
(* chat_history read right after it returns the empty sequence; reset     *)
(* leaves the query engine and the condense prompt as they were.          *)
C7_ResetClears ==
    /\ [](last.op = "reset" => memory = <<>>)
    /\ [][(last.op = "reset" /\ last'.op = "chat_history") =>
              last'.history = <<>>]_vars
    /\ [][last'.op = "reset" => (engine' = engine /\ engine' # NoEngine)]_vars

C7_Witness ==
    /\ last.op = "chat_history"
    /\ last.history = <<>>
    /\ turn = 2
    /\ \E i \in TurnIds : streams[i].state = "exhausted"

(* C8: achat and astream_chat mirror chat and stream_chat: when memory    *)
(* did not change between the call and its completion, the async          *)
(* operation reports what the sync body reports for the same memory,      *)
(* message, history argument, predictor outcome and query outcome (same   *)
(* response, sources and error), leaves the same memory, and              *)
(* astream_chat returns the same generator, so its puts come at the same  *)
(* point.                                                                  *)
C8_AsyncMirrorsSync ==
    (last.op \in {"achat", "astream_chat"} /\ last.before = last.atcall) =>
        LET p == IF last.predicted = None THEN Raises("PredictorError")
                 ELSE Returns(Val(last.predicted))
            q == IF last.returned = None THEN Raises("QueryError")
                 ELSE Returns(Val(last.returned))
            sync == IF last.op = "achat"
                    THEN [chat_body(last.atcall, last.message, last.arg, p, q)
                             EXCEPT !.last.op = "achat"]
                    ELSE [stream_chat_body(last.atcall, last.message,
                                           last.arg, p, q)
                             EXCEPT !.last.op = "astream_chat"]
        IN /\ last = [sync.last EXCEPT !.id = last.id]
           /\ memory = sync.memory
           /\ last.op = "astream_chat" => streams[last.id] = sync.chat_stream

C8_Witness ==
    /\ last.op = "achat"
    /\ last.error = NoError
    /\ last.before = last.atcall
    /\ last.id = 2
    /\ Len(memory) = 4

(* C9: when chat is called without a history argument as the second call  *)
(* on an engine whose memory holds exactly the first turn, the transcript *)
(* handed to the predictor is the first turn's user message followed by   *)
(* its assistant answer.                                                   *)
C9_SecondChatSeesFirstTurn ==
    ( /\ last.op = "chat"
      /\ last.id = 2
      /\ last.arg = None
      /\ Len(last.atcall) = 2
      /\ last.atcall[1] = ChatMessage(USER, MessageOf(1))
      /\ last.atcall[2].role = ASSISTANT ) =>
        last.predicts[1].chat_history
            = <<"user", ":">> \o MessageOf(1) \o <<"\n", "assistant", ":">>
                \o last.atcall[2].content

C9_Witness ==
    /\ last.op = "chat"
    /\ last.id = 2
    /\ last.arg = None
    /\ last.atcall = Turn(MessageOf(1), <<"a">>)
    /\ last.error = NoError
    /\ Len(memory) = 4

(* C10: every response returned by chat has the stringified query-engine  *)
(* response as its text and exactly one ToolOutput: content that same     *)
(* text, tool_name query_engine, raw_input {query: condensed question},   *)
(* raw_output the response object the query engine returned.              *)
C10_ChatResponseShape ==
    (last.op = "chat" /\ last.error = NoError) =>
        /\ last.returned # None
        /\ last.predicted # None
        /\ last.response = Some(Str(Val(last.returned)))
        /\ Len(last.sources) = 1
        /\ last.sources[1] =
              [content |-> Val(last.response),
               tool_name |-> "query_engine",
               raw_input |-> [query |-> Val(last.predicted)],
               raw_output |-> Val(last.returned)]
        /\ last.queries = <<Val(last.predicted)>>

C10_Witness ==
    /\ last.op = "chat"
    /\ last.error = NoError
    /\ last.response = Some(<<"a">>)
    /\ last.sources[1].raw_output = Response(Some(<<"a">>))

(* C11 (as stated): a chat operation called without a history argument    *)
(* condenses over the full memory contents, the sequence the chat_history *)
(* accessor returns at that moment, also when the working view of the     *)
(* memory is shorter than its full view.                                   *)
C11_CondensesFullMemory ==
    (last.op \in TurnOps /\ last.arg = None) =>
        last.predicts[1].chat_history
            = messages_to_history_str(get_all(last.atcall))

(* C11: a chat operation called without a history argument condenses over *)
(* the working view of the memory at the moment of the call: its last     *)
(* MemoryWindow messages, which is the sequence the chat_history accessor *)
(* returns only while the memory still fits in the working view.           *)
C11_CondensesWorkingView ==
    (last.op \in TurnOps /\ last.arg = None) =>
        LET n == Len(last.atcall)
            recent == IF n <= MemoryWindow THEN last.atcall
                      ELSE SubSeq(last.atcall, n - MemoryWindow + 1, n)
        IN /\ Len(last.predicts) = 1
           /\ last.predicts[1].chat_history = messages_to_history_str(recent)
           /\ n <= MemoryWindow =>
                 last.predicts[1].chat_history
                     = messages_to_history_str(get_all(last.atcall))

C11_Witness ==
    /\ last.op = "chat"
    /\ last.arg = None
    /\ last.atcall = SeedHistory \o Turn(MessageOf(1), <<"a">>)
    /\ last.predicts[1].chat_history
          = messages_to_history_str(Turn(MessageOf(1), <<"a">>))
    /\ last.error = NoError

Occurrences(mem, m) == Cardinality({k \in 1..Len(mem) : mem[k] = m})

(* C12: for one stream_chat or astream_chat call the pair of appends       *)
(* happens exactly once, at the step where the chunk sequence becomes     *)
(* exhausted; a further read of the exhausted sequence yields no chunk    *)
(* and appends nothing, and the sequence stays exhausted.                  *)
C12_AppendsOnceAtExhaustion ==
    /\ [](\A i \in TurnIds :
            Occurrences(memory, ChatMessage(USER, MessageOf(i))) <= 1)
    /\ [][\A i \in TurnIds :
            /\ (streams[i].state = "open" /\ streams'[i].state = "open") =>
                  ~ Holds(memory', ChatMessage(USER, MessageOf(i)))
            /\ (streams[i].state = "open" /\ streams'[i].state # "open") =>
                  /\ streams'[i] = Exhausted
                  /\ streams[i].gen = <<>>
                  /\ memory' = memory \o Turn(MessageOf(i),
                                               Concat(streams[i].yielded))
            /\ streams[i] = Exhausted =>
                  /\ streams'[i] = Exhausted
                  /\ (last'.op = "next" /\ last'.id = i) =>
                        /\ memory' = memory
                        /\ last'.chunk = None
                        /\ last'.error = "StopIteration"]_vars

C12_Witness ==
    /\ last.op = "next"
    /\ last.chunk = None
    /\ last.trace = <<>>
    /\ streams[last.id] = Exhausted
    /\ memory = Turn(MessageOf(last.id), <<"a", "b">>)

(* C13: in chat, achat, stream_chat and astream_chat the steps run in the *)
(* order read history, predictor call, query-engine call, memory write;   *)
(* the predictor is called exactly once and the query engine exactly once *)
(* per call, never again after a failure, and the question handed to the  *)
(* query engine is the predictor's output verbatim.                        *)
C13_FixedOrderOneCallEach ==
    /\ [](last.op \in TurnOps =>
            LET read == IF Truthy(last.arg) THEN <<>> ELSE <<"get">>
                written == last.op \in {"chat", "achat"} /\ last.error = NoError
            IN /\ Len(last.predicts) = 1
               /\ last.predicts[1].question = last.message
               /\ last.predicted = None =>
                     /\ last.queries = <<>>
                     /\ last.trace = read \o <<"predict">>
                     /\ last.error # NoError
               /\ last.predicted # None =>
                     /\ last.queries = <<Val(last.predicted)>>
                     /\ last.trace = read \o <<"predict", "query">>
                            \o (IF written THEN <<"put", "put">> ELSE <<>>)
               /\ written => memory = last.before \o
                                 Turn(last.message, Val(last.response))
               /\ ~ written => memory = last.before)
    /\ [][\A i \in TurnIds :
            /\ (coros[i] = Idle /\ coros'[i] # Idle) =>
                  /\ coros'[i].pc = "apredict"
                  /\ coros'[i].chat_history =
                        (IF Truthy(coros'[i].arg) THEN Val(coros'[i].arg)
                         ELSE get(memory))
                  /\ memory' = memory
            /\ (coros[i].pc = "apredict" /\ coros'[i] # coros[i]) =>
                  /\ coros'[i].pc = "aquery" \/ coros'[i] = Idle
                  /\ coros'[i].pc = "aquery" =>
                        coros'[i].chat_history = coros[i].chat_history
                  /\ coros'[i] = Idle =>
                        last'.id = i /\ last'.queries = <<>>
                  /\ memory' = memory
            /\ (coros[i].pc = "aquery" /\ coros'[i] # coros[i]) =>
                  /\ coros'[i] = Idle
                  /\ last'.id = i
                  /\ last'.queries = <<coros[i].condensed_question>>
                  /\ last'.predicts =
                        <<_condense_question(coros[i].chat_history,
                                             coros[i].message)>>]_vars

C13_Witness ==
    /\ last.op = "achat"
    /\ last.error = NoError
    /\ last.trace = <<"get", "predict", "query", "put", "put">>
    /\ last.queries = << <<"q">> >>
    /\ last.before # last.atcall

(* C14: the two appends of a turn are never separated.  Under any         *)
(* interleaving of suspended achat / astream_chat coroutines, stream      *)
(* drains and other calls, memory is a sequence of (user, assistant)      *)
(* pairs of even length, a user message of a turn is immediately followed *)
(* by an assistant message, and every step that changes memory either     *)
(* clears it, seeds it at construction, or appends the user message and   *)
(* the assistant message of one turn together.                             *)
C14_TurnsNeverSplit ==
    /\ [](/\ Len(memory) % 2 = 0
          /\ \A k \in 1..Len(memory) :
                /\ k % 2 = 1 => /\ memory[k].role = USER
                                /\ memory[k + 1].role = ASSISTANT
                /\ k % 2 = 0 => memory[k].role = ASSISTANT
          /\ \A i \in TurnIds : \A k \in 1..Len(memory) :
                memory[k] = ChatMessage(USER, MessageOf(i)) =>
                    /\ k < Len(memory)
                    /\ memory[k + 1].role = ASSISTANT)
    /\ [][memory' # memory =>
            \/ last'.op = "from_defaults" /\ memory = <<>>
            \/ last'.op = "reset" /\ memory' = <<>>
            \/ /\ last'.op \in {"chat", "achat", "next"}
               /\ last'.response # None
               /\ memory' = memory \o
                     Turn(MessageOf(last'.id), Val(last'.response))]_vars

C14_Witness ==
    /\ last.op = "achat"
    /\ last.id = 1
    /\ last.error = NoError
    /\ last.atcall = <<>>
    /\ memory = Turn(MessageOf(2), <<"a", "b">>)
                   \o Turn(MessageOf(1), Val(last.response))

Index(mem, m) == CHOOSE k \in 1..Len(mem) : mem[k] = m

Mentions(text, token) == \E k \in 1..Len(text) : text[k] = token

(* C15: memory records turns in order of completion, not of invocation:   *)
(* a turn that completes while an earlier stream_chat / astream_chat is   *)
(* still undrained is condensed over a transcript that does not mention   *)
(* the streamed turn's message, and when the stream is drained afterwards *)
(* its turn is appended behind every turn that completed in between.       *)
C15_CompletionOrder ==
    /\ last.op \in TurnOps =>
          \A i \in TurnIds :
              (i # last.id /\ streams[i].state = "open") =>
                  /\ ~ Mentions(last.predicts[1].chat_history, MessageTokens[i])
                  /\ ~ Holds(memory, ChatMessage(USER, MessageOf(i)))
    /\ (last.op = "next" /\ last.trace = <<"put", "put">>) =>
          /\ memory = last.before \o Turn(MessageOf(last.id), Val(last.response))
          /\ \A j \in TurnIds :
                (j # last.id /\ Holds(last.before, ChatMessage(USER, MessageOf(j)))) =>
                    Index(memory, ChatMessage(USER, MessageOf(j)))
                        < Index(memory, ChatMessage(USER, MessageOf(last.id)))

C15_Witness ==
    /\ last.op = "next"
    /\ last.id = 1
    /\ last.trace = <<"put", "put">>
    /\ last.before = Turn(MessageOf(2), <<"a">>)
    /\ memory = Turn(MessageOf(2), <<"a">>) \o Turn(MessageOf(1), <<"a", "b">>)

(* C16: reset does not cancel a pending stream.  When reset returns after *)
(* stream_chat / astream_chat returned and before the chunk sequence is   *)
(* fully consumed, the reads that follow still yield the chunks, and the  *)
(* read that exhausts the sequence appends the turn to the cleared        *)
(* memory: memory is exactly [user: message, assistant: concatenated     *)
(* chunks], so the chat_history accessor returns a non-empty history      *)
(* although the last operation called on the engine was reset.             *)
C16_ResetKeepsPendingStream ==
    (last.op = "next" /\ last.since_reset) =>
        /\ last.before = <<>>
        /\ last.chunk # None =>
              /\ memory = <<>>
              /\ streams[last.id].state = "open"
        /\ last.chunk = None =>
              /\ streams[last.id] = Exhausted
              /\ memory = Turn(MessageOf(last.id), Concat(last.yielded))
              /\ get_all(memory) # <<>>

C16_Witness ==
    /\ last.op = "next"
    /\ last.since_reset
    /\ last.chunk = None
    /\ last.yielded = << <<"a">>, <<"b">> >>
    /\ memory = Turn(MessageOf(last.id), <<"a", "b">>)

(* C17: stream_chat and astream_chat read the history, call the predictor *)
(* and call the query engine before they return the streaming response,   *)
(* so the transcript condensed for a streamed turn is built from memory   *)
(* as it was when the operation was called; reading the chunk sequence    *)
(* later calls neither the predictor nor the query engine and reads no    *)
(* history.                                                                *)
C17_StreamCondensesAtCall ==
    /\ last.op \in {"stream_chat", "astream_chat"} =>
          LET read == IF Truthy(last.arg) THEN <<>> ELSE <<"get">>
              history == IF Truthy(last.arg) THEN Val(last.arg)
                         ELSE get(last.atcall)
          IN /\ Len(last.predicts) = 1
             /\ last.predicts[1].chat_history = messages_to_history_str(history)
             /\ last.error = NoError =>
                   /\ last.predicted # None
                   /\ last.queries = <<Val(last.predicted)>>
                   /\ last.trace = read \o <<"predict", "query">>
                   /\ streams[last.id].state = "open"
                   /\ streams[last.id].yielded = <<>>
                   /\ memory = last.before
    /\ last.op = "next" =>
          /\ last.predicts = <<>>
          /\ last.queries = <<>>
          /\ last.predicted = None
          /\ last.trace \in {<<>>, <<"put", "put">>}

C17_Witness ==
    /\ last.op = "astream_chat"
    /\ last.error = NoError
    /\ last.arg = None
    /\ last.atcall = <<>>
    /\ last.before # <<>>
    /\ last.predicts[1].chat_history = <<>>

====
